---- MODULE Spec2Model ----
(***************************************************************************)
(* Skill-Hub: the marker block protocol of the Cursor adapter              *)
(* (internal/adapter/cursor.go), its backup/temp/rename file writer, and   *)
(* the remove / apply commands of internal/cli that drive the adapters.    *)
(*                                                                         *)
(* Text is a sequence of tokens.  Every token stands for a fixed run of    *)
(* characters, chosen so that the delimiters of the protocol are built     *)
(* from tokens that can also occur alone:                                  *)
(*   "#"  " "  "==="  "SKILL-HUB BEGIN:"  "SKILL-HUB END:"  "\n"  "$"       *)
(* and words made of letters.  No token is a substring of the              *)
(* concatenation of others, so a regular expression of the source matches  *)
(* a token sequence exactly where it matches the characters it stands for. *)
(***************************************************************************)
EXTENDS Integers, Sequences, FiniteSets, TLC

\* ------------------------------------------------------------------ bounds
MaxOps == 2

\* ------------------------------------------------------------------ text

Word == {"a", "b", "x", "Hello", "en", "zh"}

IsSpace(t) == t \in {" ", "\n"}

RECURSIVE TrimLeft(_)
TrimLeft(s) ==
  IF s # <<>> /\ IsSpace(Head(s)) THEN TrimLeft(Tail(s)) ELSE s

RECURSIVE TrimRight(_)
TrimRight(s) ==
  IF s # <<>> /\ IsSpace(s[Len(s)]) THEN TrimRight(SubSeq(s, 1, Len(s) - 1)) ELSE s

TrimSpace(s) == TrimRight(TrimLeft(s))

HasAt(s, lit, i) ==
  /\ i >= 1
  /\ i + Len(lit) - 1 <= Len(s)
  /\ SubSeq(s, i, i + Len(lit) - 1) = lit

MinOf(S) == CHOOSE m \in S : \A n \in S : m <= n

\* position of the first occurrence of lit in s at or after from, 0 if none
Index(s, lit, from) ==
  LET first(C) == IF C = {} THEN 0 ELSE MinOf(C)
  IN  first({i \in from..(Len(s) - Len(lit) + 1) : HasAt(s, lit, i)})

\* ------------------------------------------------------------------ delimiters

BeginLit == <<"#", " ", "===", " ", "SKILL-HUB BEGIN:", " ">>
EndLit   == <<"#", " ", "===", " ", "SKILL-HUB END:", " ">>
CloseLit == <<" ", "===">>
NL       == <<"\n">>

createMarkerBlock(skillID, content) ==
  BeginLit \o <<skillID>> \o CloseLit \o NL \o content \o NL
    \o EndLit \o <<skillID>> \o CloseLit \o NL

\* markerPattern: BEGIN (id, lazy) " ===\n" (content, lazy) "\n# === ... END: "
\* (id2, lazy) " ===".  With lazy wildcards that match any character, the
\* leftmost-first match takes the first occurrence of each literal in turn.
NoMatch ==
  [ok |-> FALSE, start |-> 0, next |-> 0, id |-> <<>>, content |-> <<>>, id2 |-> <<>>]

markerPattern(s, from) ==
  LET atK(p, i, j, k) ==
        IF k = 0 THEN NoMatch
        ELSE [ok |-> TRUE, start |-> p, next |-> k + Len(CloseLit),
              id |-> SubSeq(s, p + Len(BeginLit), i - 1),
              content |-> SubSeq(s, i + Len(CloseLit) + 1, j - 1),
              id2 |-> SubSeq(s, j + 1 + Len(EndLit), k - 1)]
      atJ(p, i, j) ==
        IF j = 0 THEN NoMatch
        ELSE atK(p, i, j, Index(s, CloseLit, j + 1 + Len(EndLit)))
      atI(p, i) ==
        IF i = 0 THEN NoMatch
        ELSE atJ(p, i, Index(s, NL \o EndLit, i + Len(CloseLit) + 1))
      atP(p) ==
        IF p = 0 THEN NoMatch
        ELSE atI(p, Index(s, CloseLit \o NL, p + Len(BeginLit)))
  IN  atP(Index(s, BeginLit, from))

\* FindAllStringSubmatch(content, -1): successive non-overlapping matches
RECURSIVE FindAllStringSubmatch(_, _)
FindAllStringSubmatch(s, from) ==
  LET more(m) == IF ~m.ok THEN <<>> ELSE <<m>> \o FindAllStringSubmatch(s, m.next)
  IN  more(markerPattern(s, from))

\* the pattern built for one skill id by Remove (eatNL: the trailing \n?) and
\* by replaceOrAddMarker (no trailing newline in the pattern)
blockPattern(s, skillID, from, eatNL) ==
  LET open  == BeginLit \o <<skillID>> \o CloseLit \o NL
      close == NL \o EndLit \o <<skillID>> \o CloseLit
      atE(p, e) ==
        [ok |-> TRUE, start |-> p,
         next |-> IF eatNL /\ HasAt(s, NL, e) THEN e + 1 ELSE e]
      atJ(p, j) ==
        IF j = 0 THEN [ok |-> FALSE, start |-> 0, next |-> 0]
        ELSE atE(p, j + Len(close))
      atP(p) ==
        IF p = 0 THEN [ok |-> FALSE, start |-> 0, next |-> 0]
        ELSE atJ(p, Index(s, close, p + Len(open)))
  IN  atP(Index(s, open, from))

\* Regexp.expand of a replacement template against a pattern without capture
\* groups: "$$" is a dollar, "$name" (name: the longest run of letters) is the
\* text of group name, which is empty here; a "$" followed by anything else
\* stays as it is.
RECURSIVE DropName(_)
DropName(s) == IF s # <<>> /\ Head(s) \in Word THEN DropName(Tail(s)) ELSE s

RECURSIVE expand(_)
expand(t) ==
  IF t = <<>> THEN <<>>
  ELSE IF Head(t) # "$" THEN <<Head(t)>> \o expand(Tail(t))
  ELSE IF Len(t) >= 2 /\ t[2] = "$" THEN <<"$">> \o expand(Tail(Tail(t)))
  ELSE IF Len(t) >= 2 /\ t[2] \in Word THEN expand(DropName(Tail(t)))
  ELSE <<"$">> \o expand(Tail(t))

\* ReplaceAllString(src, repl) for blockPattern
RECURSIVE ReplaceAllString(_, _, _, _, _)
ReplaceAllString(s, skillID, repl, from, eatNL) ==
  LET more(m) ==
        IF ~m.ok THEN SubSeq(s, from, Len(s))
        ELSE SubSeq(s, from, m.start - 1) \o expand(repl)
               \o ReplaceAllString(s, skillID, repl, m.next, eatNL)
  IN  more(blockPattern(s, skillID, from, eatNL))

\* ------------------------------------------------------------------ templates

VarNames == {"LANGUAGE"}

\* "{{." + key + "}}"
Placeholder(key) == IF key = "LANGUAGE" THEN "{{.LANGUAGE}}" ELSE "{{.}}"

\* a variable binding (map[string]string) is a set of <<key, value>> pairs
\* with distinct keys
HasKey(variables, key) == \E kv \in variables : kv[1] = key
ValueOf(variables, key) == (CHOOSE kv \in variables : kv[1] = key)[2]

\* text/template on a map[string]string: a "{{" that is never closed is a
\* parse error; a field of a missing key prints as "<no value>"
RECURSIVE Execute(_, _)
Execute(t, variables) ==
  LET field(key) ==
        IF HasKey(variables, key) THEN ValueOf(variables, key) ELSE <<"<no value>">>
      node(h, K) == IF K = {} THEN <<h>> ELSE field(CHOOSE key \in K : TRUE)
  IN  IF t = <<>> THEN <<>>
      ELSE node(Head(t), {key \in VarNames : Placeholder(key) = Head(t)})
             \o Execute(Tail(t), variables)

renderTemplate(content, variables) ==
  IF \E i \in 1..Len(content) : content[i] = "{{"
  THEN [err |-> TRUE, text |-> <<>>]
  ELSE [err |-> FALSE, text |-> Execute(content, variables)]

\* ------------------------------------------------------------------ files

filePath   == ".cursorrules"
backupPath == ".cursorrules.bak"
tmpPath    == ".cursorrules.tmp"
Paths      == {filePath, backupPath, tmpPath}

NoFile     == [exists |-> FALSE, data |-> <<>>]
FileOf(d)  == [exists |-> TRUE, data |-> d]

\* os.Rename(from, to), the source exists
Rename(f, from, to) == [f EXCEPT ![to] = f[from], ![from] = NoFile]

\* the three steps of writeFile
writeBackup(f) == IF f[filePath].exists THEN Rename(f, filePath, backupPath) ELSE f
writeTmp(f, content) == [f EXCEPT ![tmpPath] = FileOf(content)]
\* a variant of the last step that copies the temporary file onto the target
writeRenameKeepsTmp(f) == [f EXCEPT ![filePath] = f[tmpPath]]
writeRename(f) == Rename(f, tmpPath, filePath)

writeFile(f, content) == writeRename(writeTmp(writeBackup(f), content))

\* ------------------------------------------------------------------ CursorAdapter

\* a variant that separates the appended block by a single newline
replaceOrAddMarkerNoBlankLine(existingContent, skillID, markerBlock) ==
  LET add(trimmed) ==
        IF trimmed = <<>> THEN markerBlock
        ELSE trimmed \o NL \o markerBlock
  IN  IF blockPattern(existingContent, skillID, 1, FALSE).ok
      THEN ReplaceAllString(existingContent, skillID, markerBlock, 1, FALSE)
      ELSE add(TrimSpace(existingContent))

replaceOrAddMarker(existingContent, skillID, markerBlock) ==
  LET add(trimmed) ==
        IF trimmed = <<>> THEN markerBlock
        ELSE trimmed \o NL \o NL \o markerBlock
  IN  IF blockPattern(existingContent, skillID, 1, FALSE).ok
      THEN ReplaceAllString(existingContent, skillID, markerBlock, 1, FALSE)
      ELSE add(TrimSpace(existingContent))

\* Apply: the file system afterwards and whether an error was returned
Apply(f, skillID, content, variables) ==
  LET existingContent == IF f[filePath].exists THEN f[filePath].data ELSE <<>>
      write(rendered) ==
        IF rendered.err THEN [fs |-> f, err |-> TRUE]
        ELSE [fs |-> writeFile(f, replaceOrAddMarker(existingContent, skillID,
                                    createMarkerBlock(skillID, rendered.text))),
              err |-> FALSE]
  IN  write(renderTemplate(content, variables))

RECURSIVE FirstBlockOf(_, _)
FirstBlockOf(matches, skillID) ==
  IF matches = <<>> THEN [err |-> TRUE, text |-> <<>>]
  ELSE IF Head(matches).id = <<skillID>> /\ Head(matches).id2 = <<skillID>>
       THEN [err |-> FALSE, text |-> TrimSpace(Head(matches).content)]
       ELSE FirstBlockOf(Tail(matches), skillID)

\* a variant that looks at the id of the opening line only
ExtractByOpeningId(f, skillID) ==
  LET RECURSIVE first(_)
      first(matches) ==
        IF matches = <<>> THEN [err |-> TRUE, text |-> <<>>]
        ELSE IF Head(matches).id = <<skillID>>
             THEN [err |-> FALSE, text |-> TrimSpace(Head(matches).content)]
             ELSE first(Tail(matches))
  IN  IF ~f[filePath].exists THEN [err |-> TRUE, text |-> <<>>]
      ELSE first(FindAllStringSubmatch(f[filePath].data, 1))

Extract(f, skillID) ==
  IF ~f[filePath].exists THEN [err |-> TRUE, text |-> <<>>]
  ELSE FirstBlockOf(FindAllStringSubmatch(f[filePath].data, 1), skillID)

\* a variant that writes an empty file when there is none
RemoveCreatesFile(f, skillID) ==
  LET write(newContent) ==
        IF newContent = <<>>
        THEN [fs |-> [f EXCEPT ![filePath] = NoFile], err |-> FALSE]
        ELSE [fs |-> writeFile(f, newContent), err |-> FALSE]
  IN  IF ~f[filePath].exists THEN [fs |-> writeFile(f, <<>>), err |-> FALSE]
      ELSE write(TrimSpace(ReplaceAllString(f[filePath].data, skillID, <<>>, 1, TRUE)))

\* a variant that writes the file back even when nothing is left in it
RemoveKeepsEmptyFile(f, skillID) ==
  IF ~f[filePath].exists THEN [fs |-> f, err |-> FALSE]
  ELSE [fs |-> writeFile(f, TrimSpace(ReplaceAllString(f[filePath].data, skillID,
                                                        <<>>, 1, TRUE))),
        err |-> FALSE]

Remove(f, skillID) ==
  LET write(newContent) ==
        IF newContent = <<>>
        THEN [fs |-> [f EXCEPT ![filePath] = NoFile], err |-> FALSE]
        ELSE [fs |-> writeFile(f, newContent), err |-> FALSE]
  IN  IF ~f[filePath].exists THEN [fs |-> f, err |-> FALSE]
      ELSE write(TrimSpace(ReplaceAllString(f[filePath].data, skillID, <<>>, 1, TRUE)))

\* a variant that does not compare the two ids of a match
RECURSIVE MatchedIdsUnchecked(_)
MatchedIdsUnchecked(matches) ==
  IF matches = <<>> THEN <<>>
  ELSE <<Head(matches).id>> \o MatchedIdsUnchecked(Tail(matches))

RECURSIVE MatchedIds(_)
MatchedIds(matches) ==
  IF matches = <<>> THEN <<>>
  ELSE (IF Head(matches).id = Head(matches).id2 THEN <<Head(matches).id>> ELSE <<>>)
       \o MatchedIds(Tail(matches))

List(f) ==
  IF ~f[filePath].exists THEN <<>>
  ELSE MatchedIds(FindAllStringSubmatch(f[filePath].data, 1))

\* ------------------------------------------------------------------ state

VARIABLES
  fs,     \* the files of the Cursor adapter: path -> [exists, data]
  last,   \* the adapter call made last: operation, arguments, error
  prev,   \* the adapter call made before it
  nops,   \* number of adapter calls made
  live,   \* ids applied and not removed since, in the order they were added
  wpc,    \* writeFile in progress: invocation -> position in writeFile
  wnew,   \* invocation -> the content it is writing
  orig,   \* the target file before any writeFile started
  wfd,    \* invocation -> the path at which the file it holds open is found
  kv,     \* the stores of the other two adapters: adapter -> skill -> [exists, data]
  store,  \* the canonical skill store: skill -> skill.yaml and prompt.md
  project,\* the project state: bindings and preferred target
  env,    \* adapter -> what its Supports() returns here
  run,    \* the command in progress: position and local variables
  log,    \* the calls the command in progress has made, in order
  snap,   \* files, stores and project state when the command started
  clean,  \* adapters whose copy was written by apply and not touched since
  ncmds,  \* number of commands and manual edits so far
  results,\* the ValidationResult values in use: name -> IsValid, Errors, Warnings
  vlast   \* the call on a ValidationResult made last

avars == <<last, prev, nops, live>>
wvars == <<wpc, wnew, orig, wfd>>
cvars == <<kv, store, project, env, run, log, snap, clean, ncmds>>
vvars == <<results, vlast>>
vars == <<fs, avars, wvars, cvars, vvars>>

\* two invocations of the tool may run writeFile on the same target (spec 5)
Writers == {1, 2}
NoFd == ""
Unlinked == "(unlinked)"
ValidIdle == /\ results = <<>>
             /\ vlast = [op |-> "none", r |-> 0, other |-> 0]
WriteIdle == /\ wpc = [w \in Writers |-> "idle"]
             /\ wnew = [w \in Writers |-> <<>>]
             /\ orig = NoFile
             /\ wfd = [w \in Writers |-> NoFd]

SkillIds == {"a", "b"}

NoCall == [op |-> "none", id |-> "", content |-> <<>>, variables |-> {}, err |-> FALSE]

\* the (template, variables) arguments tried with Apply
Hello == <<"Hello", " ", "{{.LANGUAGE}}">>
ApplyArgs ==
  { [content |-> Hello,               variables |-> {<<"LANGUAGE", <<"en">>>>}],
    [content |-> Hello,               variables |-> {<<"LANGUAGE", <<"zh">>>>}],
    [content |-> Hello,               variables |-> {}],
    [content |-> <<"$", "x">>,        variables |-> {}],
    [content |-> <<" ", "x", "\n">>,  variables |-> {}],
    [content |-> <<>>,                variables |-> {}],
    [content |-> <<"{{">>,            variables |-> {}] }

\* the target files the adapter may find: missing, empty, literal text, blocks
\* written by earlier runs, and text with stray or mismatched delimiter lines
BlockA == createMarkerBlock("a", <<"x">>)
BlockB == createMarkerBlock("b", <<"en">>)
StrayOpen == BeginLit \o <<"x">> \o CloseLit \o NL
Mismatched == BeginLit \o <<"a">> \o CloseLit \o NL \o <<"x">> \o NL
                \o EndLit \o <<"b">> \o CloseLit \o NL
\* no command of internal/cli is running and none has run
IdleRun ==
  [pc |-> "idle", cmd |-> "", skillID |-> "", force |-> FALSE, dryRun |-> FALSE,
   target |-> "",
   adapters |-> <<>>, skillEnabled |-> FALSE, variables |-> {},
   hasModifications |-> FALSE, modified |-> {}, answer |-> <<>>,
   removed |-> {}, fileContent |-> <<>>, outcome |-> ""]
CmdIdle ==
  /\ kv = <<>>
  /\ store = <<>>
  /\ project = <<>>
  /\ env = <<>>
  /\ run = IdleRun
  /\ log = <<>>
  /\ snap = <<>>
  /\ clean = {}
  /\ ncmds = 0

InitFiles ==
  { NoFile,
    FileOf(<<>>),
    FileOf(<<"x", "\n">>),
    FileOf(BlockA),
    FileOf(replaceOrAddMarker(BlockA, "b", BlockB)),
    FileOf(<<"x", "\n">> \o BlockA \o <<"x", "\n">>),
    FileOf(StrayOpen \o <<"x", "\n">>),
    FileOf(StrayOpen \o replaceOrAddMarker(BlockA, "b", BlockB)),
    FileOf(Mismatched),
    FileOf(Mismatched \o BlockA),
    FileOf(BeginLit \o <<"a">> \o BlockA \o CloseLit \o NL \o <<"x">> \o NL
             \o EndLit \o <<"a">> \o CloseLit \o NL) }

Init ==
  /\ \E f \in InitFiles :
       fs = [p \in Paths |-> IF p = filePath THEN f ELSE NoFile]
  /\ last = NoCall
  /\ prev = NoCall
  /\ nops = 0
  /\ live = <<>>
  /\ WriteIdle
  /\ ValidIdle
  /\ CmdIdle

DoApply ==
  /\ nops < MaxOps
  /\ \E skillID \in SkillIds, arg \in ApplyArgs :
       LET r == Apply(fs, skillID, arg.content, arg.variables)
       IN  /\ fs' = r.fs
           /\ last' = [op |-> "Apply", id |-> skillID, content |-> arg.content,
                       variables |-> arg.variables, err |-> r.err]
  /\ prev' = last
  /\ nops' = nops + 1
  /\ UNCHANGED <<live, wvars, cvars, vvars>>

DoRemove ==
  /\ nops < MaxOps
  /\ \E skillID \in SkillIds :
       LET r == Remove(fs, skillID)
       IN  /\ fs' = r.fs
           /\ last' = [op |-> "Remove", id |-> skillID, content |-> <<>>,
                       variables |-> {}, err |-> r.err]
  /\ prev' = last
  /\ nops' = nops + 1
  /\ UNCHANGED <<live, wvars, cvars, vvars>>

Next == DoApply \/ DoRemove

Spec == Init /\ [][Next]_vars

\* ------------------------------------------------------------------ sequences of calls on a new target

MaxSeq == 4

\* templates without delimiter lines
SeqArgs ==
  { [content |-> Hello,          variables |-> {<<"LANGUAGE", <<"en">>>>}],
    [content |-> <<"$", "x">>,   variables |-> {}],
    [content |-> <<>>,           variables |-> {}],
    [content |-> <<"{{">>,       variables |-> {}] }

InitSeq ==
  /\ fs = [p \in Paths |-> NoFile]
  /\ last = NoCall
  /\ prev = NoCall
  /\ nops = 0
  /\ live = <<>>
  /\ WriteIdle
  /\ ValidIdle
  /\ CmdIdle

SeqApply ==
  /\ nops < MaxSeq
  /\ \E skillID \in SkillIds, arg \in SeqArgs :
       \E r \in {Apply(fs, skillID, arg.content, arg.variables)} :
           /\ fs' = r.fs
           /\ last' = [op |-> "Apply", id |-> skillID, content |-> arg.content,
                       variables |-> arg.variables, err |-> r.err]
           /\ live' = IF r.err \/ \E i \in 1..Len(live) : live[i] = skillID
                      THEN live ELSE Append(live, skillID)
  /\ prev' = last
  /\ nops' = nops + 1
  /\ UNCHANGED <<wvars, cvars, vvars>>

SeqRemove ==
  /\ nops < MaxSeq
  /\ \E skillID \in SkillIds :
       \E r \in {Remove(fs, skillID)} :
           /\ fs' = r.fs
           /\ last' = [op |-> "Remove", id |-> skillID, content |-> <<>>,
                       variables |-> {}, err |-> r.err]
           /\ live' = IF r.err THEN live
                      ELSE SelectSeq(live, LAMBDA id : id # skillID)
  /\ prev' = last
  /\ nops' = nops + 1
  /\ UNCHANGED <<wvars, cvars, vvars>>

NextSeq == SeqApply \/ SeqRemove

SpecSeq == InitSeq /\ [][NextSeq]_vars

\* ------------------------------------------------------------------ writeFile, step by step

\* what two runs of apply may write: the block of a alone, or followed by the
\* block of b
NewContents ==
  { createMarkerBlock("a", <<"en">>),
    createMarkerBlock("a", <<"zh">>),
    replaceOrAddMarker(createMarkerBlock("a", <<"zh">>), "b", BlockB) }

\* os.WriteFile is OpenFile(name, O_WRONLY|O_CREATE|O_TRUNC), Write, Close
openTrunc(f, path) == [f EXCEPT ![path] = FileOf(<<>>)]
\* Write at offset 0 of the open file: bytes beyond the data written stay
writeAt(f, path, content) ==
  IF path \notin Paths THEN f
  ELSE [f EXCEPT ![path].data =
          content \o SubSeq(f[path].data, Len(content) + 1, Len(f[path].data))]
\* os.Rename seen from an open file: it follows the file it holds, and a
\* file that is replaced has no path any more
fdAfterRename(fd, from, to) ==
  [w \in Writers |-> IF fd[w] = from THEN to
                     ELSE IF fd[w] = to THEN Unlinked ELSE fd[w]]

InitWrite ==
  /\ ValidIdle
  /\ \E f \in {NoFile, FileOf(BlockA)} :
       /\ fs = [p \in Paths |-> IF p = filePath THEN f ELSE NoFile]
       /\ orig = f
  /\ wpc = [w \in Writers |-> "idle"]
  /\ wnew = [w \in Writers |-> <<>>]
  /\ wfd = [w \in Writers |-> NoFd]
  /\ last = NoCall
  /\ prev = NoCall
  /\ nops = 0
  /\ live = <<>>
  /\ CmdIdle

\* writeFile(content) is called
WriteCall(w) ==
  /\ wpc[w] = "idle"
  /\ \E content \in NewContents : wnew' = [wnew EXCEPT ![w] = content]
  /\ wpc' = [wpc EXCEPT ![w] = "stat"]
  /\ UNCHANGED <<fs, orig, wfd, avars, cvars, vvars>>

\* os.Stat(a.filePath)
WriteStat(w) ==
  /\ wpc[w] = "stat"
  /\ wpc' = [wpc EXCEPT ![w] = IF fs[filePath].exists THEN "backup" ELSE "tmp"]
  /\ UNCHANGED <<fs, wnew, orig, wfd, avars, cvars, vvars>>

\* os.Rename(a.filePath, backupPath); fails when the target is gone by now
WriteBackup(w) ==
  /\ wpc[w] = "backup"
  /\ IF fs[filePath].exists
     THEN /\ fs' = writeBackup(fs)
          /\ wfd' = fdAfterRename(wfd, filePath, backupPath)
          /\ wpc' = [wpc EXCEPT ![w] = "tmp"]
     ELSE /\ fs' = fs
          /\ wfd' = wfd
          /\ wpc' = [wpc EXCEPT ![w] = "failed"]
  /\ UNCHANGED <<wnew, orig, avars, cvars, vvars>>

\* os.WriteFile(tmpPath, content), its OpenFile: the file is created or
\* truncated
WriteOpen(w) ==
  /\ wpc[w] = "tmp"
  /\ fs' = openTrunc(fs, tmpPath)
  /\ wfd' = [wfd EXCEPT ![w] = tmpPath]
  /\ wpc' = [wpc EXCEPT ![w] = "write"]
  /\ UNCHANGED <<wnew, orig, avars, cvars, vvars>>

\* os.WriteFile(tmpPath, content), its Write and Close: the data goes to the
\* file that was opened, wherever it is by now
WriteTmp(w) ==
  /\ wpc[w] = "write"
  /\ fs' = writeAt(fs, wfd[w], wnew[w])
  /\ wfd' = [wfd EXCEPT ![w] = NoFd]
  /\ wpc' = [wpc EXCEPT ![w] = "rename"]
  /\ UNCHANGED <<wnew, orig, avars, cvars, vvars>>

\* os.Rename(tmpPath, a.filePath); fails when the temporary file is gone
WriteRename(w) ==
  /\ wpc[w] = "rename"
  /\ IF fs[tmpPath].exists
     THEN /\ fs' = writeRename(fs)
          /\ wfd' = fdAfterRename(wfd, tmpPath, filePath)
          /\ wpc' = [wpc EXCEPT ![w] = "done"]
     ELSE /\ fs' = fs
          /\ wfd' = wfd
          /\ wpc' = [wpc EXCEPT ![w] = "failed"]
  /\ UNCHANGED <<wnew, orig, avars, cvars, vvars>>

\* a step returns an error of the disk: writeFile returns it, nothing is undone
WriteError(w) ==
  /\ wpc[w] \in {"backup", "tmp", "write", "rename"}
  /\ wpc' = [wpc EXCEPT ![w] = "ioerror"]
  /\ wfd' = [wfd EXCEPT ![w] = NoFd]
  /\ UNCHANGED <<fs, wnew, orig, avars, cvars, vvars>>

\* the process is interrupted between two steps
WriteCrash(w) ==
  /\ wpc[w] \in {"stat", "backup", "tmp", "write", "rename"}
  /\ wpc' = [wpc EXCEPT ![w] = "crashed"]
  /\ wfd' = [wfd EXCEPT ![w] = NoFd]
  /\ UNCHANGED <<fs, wnew, orig, avars, cvars, vvars>>

NextWrite ==
  \E w \in Writers :
    \/ WriteCall(w)
    \/ WriteStat(w)
    \/ WriteBackup(w)
    \/ WriteOpen(w)
    \/ WriteTmp(w)
    \/ WriteRename(w)
    \/ WriteError(w)
    \/ WriteCrash(w)

SpecWrite == InitWrite /\ [][NextWrite]_vars

\* ------------------------------------------------------------------ commands of internal/cli

MaxCmds == 3

CmdSkills == {"a"}

\* spec.NormalizeTarget: the short forms claude and opencode are accepted
NormalizeTarget(target) ==
  IF target = "claude" THEN "claude_code"
  ELSE IF target = "opencode" THEN "open_code"
  ELSE target

\* a variant in which the target all selects the Cursor adapter alone
selectAdaptersAllIsCursor(target) ==
  (IF target = "all" \/ target = "cursor" THEN <<"cursor">> ELSE <<>>)
    \o (IF target = "claude_code" THEN <<"claude_code">> ELSE <<>>)
    \o (IF target = "open_code" THEN <<"open_code">> ELSE <<>>)

\* an adapter is known by the name of its target
selectAdapters(target) ==
  (IF target = "all" \/ target = "cursor" THEN <<"cursor">> ELSE <<>>)
    \o (IF target = "all" \/ target = "claude_code" THEN <<"claude_code">> ELSE <<>>)
    \o (IF target = "all" \/ target = "open_code" THEN <<"open_code">> ELSE <<>>)

adapterSupportsSkill(adapter, skill) ==
  IF adapter = "cursor" THEN skill.compatibility.cursor
  ELSE IF adapter = "claude_code" THEN skill.compatibility.claudeCode
  ELSE FALSE

\* Supports(): the Cursor adapter is always available
Supports(e, adapter) == IF adapter = "cursor" THEN TRUE ELSE e[adapter]

\* the other two adapters keep one entry per skill id (spec 4.3); a reference
\* to a variable without a value renders as empty there (spec 4.1)
RECURSIVE SubstituteOrEmpty(_, _)
SubstituteOrEmpty(t, variables) ==
  LET field(key) == IF HasKey(variables, key) THEN ValueOf(variables, key) ELSE <<>>
      node(h, K) == IF K = {} THEN <<h>> ELSE field(CHOOSE key \in K : TRUE)
  IN  IF t = <<>> THEN <<>>
      ELSE node(Head(t), {key \in VarNames : Placeholder(key) = Head(t)})
             \o SubstituteOrEmpty(Tail(t), variables)

storeApply(k, adapter, skillID, content, variables) ==
  IF \E i \in 1..Len(content) : content[i] = "{{"
  THEN [kv |-> k, err |-> TRUE]
  ELSE [kv |-> [k EXCEPT ![adapter][skillID] =
                  FileOf(SubstituteOrEmpty(content, variables))],
        err |-> FALSE]

storeExtract(k, adapter, skillID) ==
  IF k[adapter][skillID].exists
  THEN [err |-> FALSE, text |-> TrimSpace(k[adapter][skillID].data)]
  ELSE [err |-> TRUE, text |-> <<>>]

storeRemove(k, adapter, skillID) ==
  [kv |-> [k EXCEPT ![adapter][skillID] = NoFile], err |-> FALSE]

\* the Adapter interface, w = [fs, kv]
adapterApply(w, adapter, skillID, content, variables) ==
  LET file(r) == [fs |-> r.fs, kv |-> w.kv, err |-> r.err]
      entry(r) == [fs |-> w.fs, kv |-> r.kv, err |-> r.err]
  IN  IF adapter = "cursor"
      THEN file(Apply(w.fs, skillID, content, variables))
      ELSE entry(storeApply(w.kv, adapter, skillID, content, variables))

adapterExtract(w, adapter, skillID) ==
  IF adapter = "cursor" THEN Extract(w.fs, skillID)
  ELSE storeExtract(w.kv, adapter, skillID)

\* ioFails: the adapters whose Remove meets an I/O error before it changes
\* anything (readFile, os.Remove or the first step of writeFile failing)
adapterRemove(w, adapter, skillID, ioFails) ==
  LET file(r) == [fs |-> r.fs, kv |-> w.kv, err |-> r.err]
      entry(r) == [fs |-> w.fs, kv |-> r.kv, err |-> r.err]
  IN  IF adapter \in ioFails THEN [fs |-> w.fs, kv |-> w.kv, err |-> TRUE]
      ELSE IF adapter = "cursor"
      THEN file(Remove(w.fs, skillID))
      ELSE entry(storeRemove(w.kv, adapter, skillID))

\* SkillManager
LoadSkill(st, skillID) == [err |-> ~st[skillID].exists, skill |-> st[skillID]]
GetSkillPrompt(st, skillID) ==
  IF st[skillID].prompt.exists
  THEN [err |-> FALSE, text |-> st[skillID].prompt.data]
  ELSE [err |-> TRUE, text |-> <<>>]

\* SkillExists looks for the directory, skill.yaml and prompt.md and reads none
SkillExists(st, skillID) == st[skillID].yaml /\ st[skillID].prompt.exists

\* StateManager: the bindings of the project, a set of spec.SkillVars
GetProjectSkills(proj) == IF proj.exists THEN proj.skills ELSE {}
ProjectHasSkill(proj, skillID) == \E b \in GetProjectSkills(proj) : b.skillID = skillID
SkillVarsOf(proj, skillID) ==
  IF ProjectHasSkill(proj, skillID)
  THEN (CHOOSE b \in GetProjectSkills(proj) : b.skillID = skillID).variables
  ELSE {}
RemoveSkillFromProject(proj, skillID) ==
  [proj EXCEPT !.skills = {b \in proj.skills : b.skillID # skillID}]

\* strings.ReplaceAll(result, placeholder, value)
RECURSIVE ReplaceAll(_, _, _)
ReplaceAll(t, placeholder, value) ==
  IF t = <<>> THEN <<>>
  ELSE (IF Head(t) = placeholder THEN value ELSE <<Head(t)>>)
       \o ReplaceAll(Tail(t), placeholder, value)

RECURSIVE renderTemplateForRemove(_, _)
renderTemplateForRemove(content, variables) ==
  IF variables = {} THEN content
  ELSE LET kvp == CHOOSE x \in variables : TRUE
       IN  renderTemplateForRemove(ReplaceAll(content, Placeholder(kvp[1]), kvp[2]),
                                   variables \ {kvp})

\* sha256.Sum256: equal digests for equal texts only
Sum256(t) == <<"sha256", t>>

Call(c, adapter) == [call |-> c, adapter |-> adapter]

\* a variant that leaves the loop at the first Extract that fails
RECURSIVE checkAdaptersStopAtError(_, _, _, _, _)
checkAdaptersStopAtError(adapters, w, e, skillID, originalHash) ==
  LET one(adapter, cur, rest) ==
        IF ~Supports(e, adapter) THEN rest
        ELSE IF cur.err
        THEN [modified |-> {}, calls |-> <<Call("Extract", adapter)>>]
        ELSE IF cur.text = <<>>
        THEN [modified |-> rest.modified,
              calls |-> <<Call("Extract", adapter)>> \o rest.calls]
        ELSE [modified |->
                (IF Sum256(TrimSpace(cur.text)) # originalHash
                 THEN {adapter} ELSE {}) \cup rest.modified,
              calls |-> <<Call("Extract", adapter), Call("Sum256", adapter)>>
                          \o rest.calls]
  IN  IF adapters = <<>> THEN [modified |-> {}, calls |-> <<>>]
      ELSE one(Head(adapters), adapterExtract(w, Head(adapters), skillID),
               checkAdaptersStopAtError(Tail(adapters), w, e, skillID, originalHash))

\* the loop of checkSkillModifications over the adapters
RECURSIVE checkAdapters(_, _, _, _, _)
checkAdapters(adapters, w, e, skillID, originalHash) ==
  LET one(adapter, cur, rest) ==
        IF ~Supports(e, adapter) THEN rest
        ELSE IF cur.err \/ cur.text = <<>>
        THEN [modified |-> rest.modified,
              calls |-> <<Call("Extract", adapter)>> \o rest.calls]
        ELSE [modified |->
                (IF Sum256(TrimSpace(cur.text)) # originalHash
                 THEN {adapter} ELSE {}) \cup rest.modified,
              calls |-> <<Call("Extract", adapter), Call("Sum256", adapter)>>
                          \o rest.calls]
  IN  IF adapters = <<>> THEN [modified |-> {}, calls |-> <<>>]
      ELSE one(Head(adapters), adapterExtract(w, Head(adapters), skillID),
               checkAdapters(Tail(adapters), w, e, skillID, originalHash))

checkSkillModifications(adapters, w, st, e, skillID, variables) ==
  LET result(r) ==
        [err |-> FALSE, hasModifications |-> r.modified # {},
         modified |-> r.modified,
         calls |-> <<Call("GetSkillPrompt", ""), Call("Sum256", "")>> \o r.calls]
      check(originalPrompt) ==
        IF originalPrompt.err
        THEN [err |-> TRUE, hasModifications |-> FALSE, modified |-> {},
              calls |-> <<Call("GetSkillPrompt", "")>>]
        ELSE result(checkAdapters(adapters, w, e, skillID,
               Sum256(TrimSpace(renderTemplateForRemove(originalPrompt.text, variables)))))
  IN  check(GetSkillPrompt(st, skillID))

\* strings.ToLower on the words an operator types
ToLower(t) ==
  [i \in 1..Len(t) |->
     IF t[i] = "Y" THEN "y" ELSE IF t[i] = "YES" THEN "yes" ELSE t[i]]

\* a variant that takes everything but n for consent
confirmRemovalDefaultYes(input) ==
  LET answer == TrimSpace(ToLower(input))
  IN  answer # <<"n">> /\ answer # <<"no">>

\* confirmRemoval: the line read from the input stream
confirmRemoval(input) ==
  LET answer == TrimSpace(ToLower(input))
  IN  answer = <<"y">> \/ answer = <<"yes">>

\* a variant with the negation of the flag lost
needsSafetyCheckOnlyForced(forceRemove, skillEnabled) == forceRemove /\ skillEnabled

\* a variant that forgets the --force flag
needsSafetyCheckIgnoringForce(forceRemove, skillEnabled) == skillEnabled

\* runRemove line 127: the safety check runs without --force for a bound skill
needsSafetyCheck(forceRemove, skillEnabled) == ~forceRemove /\ skillEnabled

\* the cleanup loop of runRemove
RECURSIVE cleanupAdapters(_, _, _, _, _, _)
cleanupAdapters(adapters, w, e, skill, skillID, ioFails) ==
  LET after(adapter, r, rest) ==
        [fs |-> rest.fs, kv |-> rest.kv,
         calls |-> <<Call("Remove", adapter)>> \o rest.calls,
         removed |-> (IF r.err THEN {} ELSE {adapter}) \cup rest.removed]
      next(adapter, r) ==
        after(adapter, r,
              cleanupAdapters(Tail(adapters), [fs |-> r.fs, kv |-> r.kv],
                              e, skill, skillID, ioFails))
      one(adapter) ==
        IF ~adapterSupportsSkill(adapter, skill) \/ ~Supports(e, adapter)
        THEN cleanupAdapters(Tail(adapters), w, e, skill, skillID, ioFails)
        ELSE next(adapter, adapterRemove(w, adapter, skillID, ioFails))
  IN  IF adapters = <<>>
      THEN [fs |-> w.fs, kv |-> w.kv, calls |-> <<>>, removed |-> {}]
      ELSE one(Head(adapters))

\* runApply: the adapters of --target, cursor and claude only
applyAdapters(target) ==
  (IF target = "all" \/ target = "cursor" THEN <<"cursor">> ELSE <<>>)
    \o (IF target = "all" \/ target = "claude" THEN <<"claude_code">> ELSE <<>>)

\* a variant of the inner loop that does not look at --dry-run
RECURSIVE applySkillsIgnoringDryRun(_, _, _, _, _)
applySkillsIgnoringDryRun(bindings, w, st, adapter, dry) ==
  LET after(b, r, rest) ==
        [fs |-> rest.fs, kv |-> rest.kv,
         wrote |-> (IF r.err THEN {} ELSE {<<adapter, b.skillID>>}) \cup rest.wrote,
         calls |-> <<Call("Apply", adapter)>> \o rest.calls]
      next(b, r) ==
        after(b, r, applySkillsIgnoringDryRun(Tail(bindings), [fs |-> r.fs, kv |-> r.kv],
                                              st, adapter, dry))
      one(b, ld, prompt) ==
        IF ld.err \/ ~adapterSupportsSkill(adapter, ld.skill) \/ prompt.err
        THEN applySkillsIgnoringDryRun(Tail(bindings), w, st, adapter, dry)
        ELSE next(b, adapterApply(w, adapter, b.skillID, prompt.text, b.variables))
  IN  IF bindings = <<>> THEN [fs |-> w.fs, kv |-> w.kv, wrote |-> {}, calls |-> <<>>]
      ELSE one(Head(bindings), LoadSkill(st, Head(bindings).skillID),
               GetSkillPrompt(st, Head(bindings).skillID))

\* the inner loop of runApply over the bindings, in the order of the map range
RECURSIVE applySkills(_, _, _, _, _)
applySkills(bindings, w, st, adapter, dry) ==
  LET after(b, r, rest) ==
        [fs |-> rest.fs, kv |-> rest.kv,
         wrote |-> (IF r.err THEN {} ELSE {<<adapter, b.skillID>>}) \cup rest.wrote,
         calls |-> <<Call("Apply", adapter)>> \o rest.calls]
      next(b, r) ==
        after(b, r, applySkills(Tail(bindings), [fs |-> r.fs, kv |-> r.kv],
                                st, adapter, dry))
      one(b, ld, prompt) ==
        IF ld.err \/ ~adapterSupportsSkill(adapter, ld.skill) \/ prompt.err \/ dry
        THEN applySkills(Tail(bindings), w, st, adapter, dry)
        ELSE next(b, adapterApply(w, adapter, b.skillID, prompt.text, b.variables))
  IN  IF bindings = <<>> THEN [fs |-> w.fs, kv |-> w.kv, wrote |-> {}, calls |-> <<>>]
      ELSE one(Head(bindings), LoadSkill(st, Head(bindings).skillID),
               GetSkillPrompt(st, Head(bindings).skillID))

RECURSIVE applyLoop(_, _, _, _, _)
applyLoop(adapters, bindings, w, st, dry) ==
  LET after(r, rest) ==
        [fs |-> rest.fs, kv |-> rest.kv, wrote |-> r.wrote \cup rest.wrote,
         calls |-> r.calls \o rest.calls]
      next(r) ==
        after(r, applyLoop(Tail(adapters), bindings, [fs |-> r.fs, kv |-> r.kv],
                           st, dry))
  IN  IF adapters = <<>> THEN [fs |-> w.fs, kv |-> w.kv, wrote |-> {}, calls |-> <<>>]
      ELSE next(applySkills(bindings, w, st, Head(adapters), dry))

Orderings(S) ==
  {q \in [1..Cardinality(S) -> S] : \A i, j \in 1..Cardinality(S) : q[i] = q[j] => i = j}

KvAdapters == {"claude_code", "open_code"}
Compatibilities ==
  { [cursor |-> TRUE, claudeCode |-> TRUE],
    [cursor |-> TRUE, claudeCode |-> FALSE],
    [cursor |-> FALSE, claudeCode |-> TRUE] }
\* a skill directory: skill.yaml is there (yaml) and loads (exists), its
\* version, its compatibility flags, and prompt.md
Version100 == <<"1", ".", "0", ".", "0">>
NoSkill ==
  [yaml |-> FALSE, exists |-> FALSE, version |-> <<>>,
   compatibility |-> [cursor |-> FALSE, claudeCode |-> FALSE], prompt |-> NoFile]
StoreEntries ==
  { NoSkill }
  \cup { [yaml |-> TRUE, exists |-> TRUE, version |-> Version100,
          compatibility |-> c, prompt |-> p] :
           c \in Compatibilities, p \in {FileOf(Hello), FileOf(<<"{{">>), NoFile} }
Bindings ==
  { {},
    {[skillID |-> "a", variables |-> {<<"LANGUAGE", <<"en">>>>}]},
    {[skillID |-> "a", variables |-> {}]} }
ProjectStates ==
  { [exists |-> FALSE, preferredTarget |-> "", skills |-> {}] }
  \cup { [exists |-> TRUE, preferredTarget |-> t, skills |-> b] :
           t \in {"", "cursor"}, b \in Bindings }
Envs ==
  { [a \in KvAdapters |-> TRUE], [a \in KvAdapters |-> FALSE] }

ApplyTargets == {"all", "cursor", "claude", "gpt"}
RemoveTargets == {"", "cursor", "claude_code", "all", "gpt"}
EditContents == { <<"Hello", " ", "zh">>, <<>>, <<"Hello", " ", "en", "\n">> }
IoFailures == { {}, {"cursor"} }
Answers == { <<"y", "\n">>, <<"Y", "\n">>, <<"yes", "\n">>, <<"n", "\n">>, <<"\n">> }

InitCmd ==
  /\ \E f \in {NoFile, FileOf(BlockB), FileOf(BlockA)} :
       fs = [p \in Paths |-> IF p = filePath THEN f ELSE NoFile]
  /\ kv = [a \in KvAdapters |-> [id \in CmdSkills |-> NoFile]]
  /\ store \in [CmdSkills -> StoreEntries]
  /\ project \in ProjectStates
  /\ env \in Envs
  /\ run = IdleRun
  /\ log = <<>>
  /\ snap = <<>>
  /\ clean = {}
  /\ ncmds = 0
  /\ last = NoCall
  /\ prev = NoCall
  /\ nops = 0
  /\ live = <<>>
  /\ WriteIdle
  /\ ValidIdle

Between == run.pc \in {"idle", "done"} /\ ncmds < MaxCmds

\* skill-hub apply [--dry-run] [--target t]
CmdApply ==
  /\ Between
  /\ \E target \in ApplyTargets, dry \in BOOLEAN,
        order \in Orderings(GetProjectSkills(project)) :
       \E r \in {applyLoop(applyAdapters(target), order,
                             [fs |-> fs, kv |-> kv], store, dry)} :
         /\ fs' = r.fs
         /\ kv' = r.kv
         /\ clean' = clean \cup r.wrote
         /\ run' = [IdleRun EXCEPT !.pc = "done", !.cmd = "apply",
                      !.dryRun = dry, !.target = target,
                      !.outcome = IF order = <<>> THEN "noSkills"
                                  ELSE IF applyAdapters(target) = <<>>
                                  THEN "invalidTarget" ELSE "applied"]
         /\ log' = r.calls
  /\ snap' = [fs |-> fs, kv |-> kv, project |-> project, store |-> store]
  /\ ncmds' = ncmds + 1
  /\ UNCHANGED <<store, project, env, avars, wvars, vvars>>

\* somebody edits the content of a block in .cursorrules by hand
ExternalEdit ==
  /\ Between
  /\ fs[filePath].exists
  /\ \E skillID \in CmdSkills, content \in EditContents :
       \E m \in {blockPattern(fs[filePath].data, skillID, 1, FALSE)} :
         /\ m.ok
         /\ \E edited \in {SubSeq(fs[filePath].data, 1, m.start - 1)
                              \o BeginLit \o <<skillID>> \o CloseLit \o NL \o content
                              \o NL \o EndLit \o <<skillID>> \o CloseLit
                              \o SubSeq(fs[filePath].data, m.next, Len(fs[filePath].data))} :
              /\ edited # fs[filePath].data
              /\ fs' = [fs EXCEPT ![filePath] = FileOf(edited)]
         /\ clean' = clean \ {<<"cursor", skillID>>}
  /\ run' = IdleRun
  /\ log' = <<>>
  /\ snap' = <<>>
  /\ ncmds' = ncmds + 1
  /\ UNCHANGED <<kv, store, project, env, avars, wvars, vvars>>

\* skill-hub remove skillID [--force] [--target t], up to the safety check
RemoveStart(skillID, forceRemove, removeTarget) ==
  /\ Between
  /\ LET resolvedTarget ==
           IF removeTarget = "" /\ project.exists
           THEN NormalizeTarget(project.preferredTarget) ELSE removeTarget
         ld == LoadSkill(store, skillID)
         adapters == selectAdapters(resolvedTarget)
         skillEnabled == ProjectHasSkill(project, skillID)
         base == [IdleRun EXCEPT !.cmd = "remove", !.skillID = skillID,
                    !.force = forceRemove, !.target = resolvedTarget]
     IN  run' =
           IF resolvedTarget = ""
           THEN [base EXCEPT !.pc = "done", !.outcome = "noTarget"]
           ELSE IF ld.err
           THEN [base EXCEPT !.pc = "done", !.outcome = "loadFailed"]
           ELSE IF adapters = <<>>
           THEN [base EXCEPT !.pc = "done", !.outcome = "invalidTarget"]
           ELSE [base EXCEPT !.adapters = adapters, !.skillEnabled = skillEnabled,
                   !.variables = SkillVarsOf(project, skillID),
                   !.pc = IF needsSafetyCheck(forceRemove, skillEnabled)
                          THEN "check" ELSE "cleanup"]
  /\ log' = <<>>
  /\ snap' = [fs |-> fs, kv |-> kv, project |-> project, store |-> store]
  /\ ncmds' = ncmds + 1
  /\ UNCHANGED <<fs, kv, store, project, env, clean, avars, wvars, vvars>>

\* the safety check of runRemove
\* a variant that goes on to the cleanup when the check failed
RemoveCheckIgnoresError ==
  /\ run.pc = "check"
  /\ \E r \in {checkSkillModifications(run.adapters, [fs |-> fs, kv |-> kv], store,
                                        env, run.skillID, run.variables)} :
         /\ log' = log \o r.calls \o <<Call("checkSkillModifications", "")>>
         /\ run' = [run EXCEPT !.hasModifications = r.hasModifications,
                      !.modified = r.modified,
                      !.pc = IF r.hasModifications THEN "confirm" ELSE "cleanup"]
  /\ UNCHANGED <<fs, kv, store, project, env, snap, clean, ncmds, avars, wvars, vvars>>

RemoveCheck ==
  /\ run.pc = "check"
  /\ \E r \in {checkSkillModifications(run.adapters, [fs |-> fs, kv |-> kv], store,
                                        env, run.skillID, run.variables)} :
         /\ log' = log \o r.calls \o <<Call("checkSkillModifications", "")>>
         /\ run' = IF r.err
                   THEN [run EXCEPT !.pc = "done", !.outcome = "checkFailed"]
                   ELSE [run EXCEPT !.hasModifications = r.hasModifications,
                           !.modified = r.modified,
                           !.pc = IF r.hasModifications THEN "confirm" ELSE "cleanup"]
  /\ UNCHANGED <<fs, kv, store, project, env, snap, clean, ncmds, avars, wvars, vvars>>

\* the operator answers the question of confirmRemoval
RemoveConfirm ==
  /\ run.pc = "confirm"
  /\ \E input \in Answers :
       run' = IF confirmRemoval(input)
              THEN [run EXCEPT !.answer = input, !.pc = "cleanup"]
              ELSE [run EXCEPT !.answer = input, !.pc = "done", !.outcome = "cancelled"]
  /\ log' = log \o <<Call("confirmRemoval", "")>>
  /\ UNCHANGED <<fs, kv, store, project, env, snap, clean, ncmds, avars, wvars, vvars>>

\* a variant that deletes prompt.md of the skill as well
RemoveCleanupDeletesPrompt ==
  /\ run.pc = "cleanup"
  /\ \E ioFails \in IoFailures :
     \E r \in {cleanupAdapters(run.adapters, [fs |-> fs, kv |-> kv], env,
                                LoadSkill(store, run.skillID).skill, run.skillID,
                                ioFails)} :
         /\ fs' = r.fs
         /\ run' = [run EXCEPT !.pc = "done", !.outcome = "removed",
                      !.removed = r.removed]
         /\ kv' = r.kv
         /\ log' = log \o r.calls
         /\ clean' = {c \in clean :
                        ~(c[2] = run.skillID
                          /\ \E i \in 1..Len(r.calls) : r.calls[i].adapter = c[1])}
  /\ project' = IF run.skillEnabled
                THEN RemoveSkillFromProject(project, run.skillID) ELSE project
  /\ store' = [store EXCEPT ![run.skillID].prompt = NoFile]
  /\ UNCHANGED <<env, snap, ncmds, avars, wvars, vvars>>

\* a variant that updates the project state only when some adapter was cleaned
RemoveCleanupIfRemoved ==
  /\ run.pc = "cleanup"
  /\ \E ioFails \in IoFailures :
     \E r \in {cleanupAdapters(run.adapters, [fs |-> fs, kv |-> kv], env,
                                LoadSkill(store, run.skillID).skill, run.skillID,
                                ioFails)} :
         /\ fs' = r.fs
         /\ run' = [run EXCEPT !.pc = "done", !.outcome = "removed",
                      !.removed = r.removed]
         /\ kv' = r.kv
         /\ log' = log \o r.calls
         /\ clean' = {c \in clean :
                        ~(c[2] = run.skillID
                          /\ \E i \in 1..Len(r.calls) : r.calls[i].adapter = c[1])}
         /\ project' = IF run.skillEnabled /\ r.removed # {}
                       THEN RemoveSkillFromProject(project, run.skillID) ELSE project
  /\ UNCHANGED <<store, env, snap, ncmds, avars, wvars, vvars>>

\* the cleanup loop and the update of the project state
RemoveCleanup ==
  /\ run.pc = "cleanup"
  /\ \E ioFails \in IoFailures :
     \E r \in {cleanupAdapters(run.adapters, [fs |-> fs, kv |-> kv], env,
                                LoadSkill(store, run.skillID).skill, run.skillID,
                                ioFails)} :
         /\ fs' = r.fs
         /\ run' = [run EXCEPT !.pc = "done", !.outcome = "removed",
                      !.removed = r.removed]
         /\ kv' = r.kv
         /\ log' = log \o r.calls
         /\ clean' = {c \in clean :
                        ~(c[2] = run.skillID
                          /\ \E i \in 1..Len(r.calls) : r.calls[i].adapter = c[1])}
  /\ project' = IF run.skillEnabled
                THEN RemoveSkillFromProject(project, run.skillID) ELSE project
  /\ UNCHANGED <<store, env, snap, ncmds, avars, wvars, vvars>>

\* ------------------------------------------------------------------ feedback, list

\* strings.Split(s, sep) for a separator of one token
RECURSIVE Split(_, _)
Split(t, sep) ==
  LET cut(i) == IF i = 0 THEN <<t>>
                ELSE <<SubSeq(t, 1, i - 1)>> \o Split(SubSeq(t, i + 1, Len(t)), sep)
  IN  cut(Index(t, <<sep>>, 1))

\* the integers a version holds
IntRange == 0..30

\* parseInt: fmt.Sscanf(s, "%d", &result) reads the digits s begins with,
\* the result stays 0 when there are none
parseInt(t) ==
  LET value(N) == IF N = {} THEN 0 ELSE CHOOSE n \in N : TRUE
  IN  IF t = <<>> THEN 0 ELSE value({n \in IntRange : ToString(n) = Head(t)})

\* a variant that increments the last component of a version of any shape
incrementVersionAnyShape(version) ==
  LET join(versionParts) ==
        IF Len(versionParts) >= 2
        THEN SubSeq(version, 1, Len(version) - Len(versionParts[Len(versionParts)]))
               \o <<ToString(parseInt(versionParts[Len(versionParts)]) + 1)>>
        ELSE version
  IN  join(Split(version, "."))

\* runFeedback: fmt.Sprintf("%s.%s.%d", parts[0], parts[1], parseInt(parts[2])+1)
\* when the version has three parts
incrementVersion(version) ==
  LET join(versionParts) ==
        IF Len(versionParts) = 3
        THEN versionParts[1] \o <<".">> \o versionParts[2] \o <<".">>
               \o <<ToString(parseInt(versionParts[3]) + 1)>>
        ELSE version
  IN  join(Split(version, "."))

\* renderTemplate of package cli: a reference without a value renders as
\* empty, an unclosed action is an error (spec 4.1)
cliRenderTemplate(content, variables) ==
  IF \E i \in 1..Len(content) : content[i] = "{{"
  THEN [err |-> TRUE, text |-> <<>>]
  ELSE [err |-> FALSE, text |-> SubstituteOrEmpty(content, variables)]

\* runFeedback up to the question: how the run goes on and the content
\* extracted from .cursorrules
feedbackCheck(proj, st, f, skillID) ==
  LET stop(outcome) == [outcome |-> outcome, fileContent |-> <<>>]
      compare(fileContent, renderedOriginal) ==
        IF renderedOriginal.err THEN stop("renderFailed")
        ELSE IF TrimSpace(fileContent) = TrimSpace(renderedOriginal.text)
        THEN stop("unmodified")
        ELSE [outcome |-> "modified", fileContent |-> fileContent]
      render(fileContent, originalPrompt) ==
        IF originalPrompt.err THEN stop("promptFailed")
        ELSE compare(fileContent,
                     cliRenderTemplate(originalPrompt.text, SkillVarsOf(proj, skillID)))
      extract(ex) ==
        IF ex.err THEN stop("extractFailed")
        ELSE render(ex.text, GetSkillPrompt(st, skillID))
  IN  IF ~ProjectHasSkill(proj, skillID) THEN stop("notEnabled")
      ELSE IF ~SkillExists(st, skillID) THEN stop("notFound")
      ELSE extract(Extract(f, skillID))

\* a variant that takes everything but n for consent
confirmFeedbackDefaultYes(response) == TrimSpace(response) # <<"n">>

\* the answer to the question of runFeedback
confirmFeedback(response) ==
  TrimSpace(response) = <<"y">> \/ TrimSpace(response) = <<"Y">>

\* runFeedback after the consent: prompt.md is written, then skill.yaml is
\* loaded, its version incremented and the file written back
feedbackWrite(st, skillID, fileContent) ==
  LET save(written, ld) ==
        IF ld.err THEN [store |-> written, err |-> TRUE]
        ELSE [store |-> [written EXCEPT
                           ![skillID].version = incrementVersion(ld.skill.version)],
              err |-> FALSE]
      load(written) == save(written, LoadSkill(written, skillID))
  IN  load([st EXCEPT ![skillID].prompt = FileOf(fileContent)])

FeedbackStart(skillID) ==
  /\ Between
  /\ \E r \in {feedbackCheck(project, store, fs, skillID)} :
       run' = [IdleRun EXCEPT !.cmd = "feedback", !.skillID = skillID,
                 !.variables = SkillVarsOf(project, skillID),
                 !.fileContent = r.fileContent,
                 !.hasModifications = (r.outcome = "modified"),
                 !.pc = IF r.outcome = "modified" THEN "confirmFeedback" ELSE "done",
                 !.outcome = IF r.outcome = "modified" THEN "" ELSE r.outcome]
  /\ log' = <<>>
  /\ snap' = [fs |-> fs, kv |-> kv, project |-> project, store |-> store]
  /\ ncmds' = ncmds + 1
  /\ UNCHANGED <<fs, kv, store, project, env, clean, avars, wvars, vvars>>

\* the operator answers the question of runFeedback
FeedbackConfirm ==
  /\ run.pc = "confirmFeedback"
  /\ \E response \in Answers :
       IF confirmFeedback(response)
       THEN \E r \in {feedbackWrite(store, run.skillID, run.fileContent)} :
              /\ store' = r.store
              /\ run' = [run EXCEPT !.answer = response, !.pc = "done",
                           !.outcome = IF r.err THEN "loadFailed" ELSE "accepted"]
       ELSE /\ store' = store
            /\ run' = [run EXCEPT !.answer = response, !.pc = "done",
                         !.outcome = "declined"]
  /\ UNCHANGED <<fs, kv, project, env, log, snap, clean, ncmds, avars, wvars, vvars>>

\* runList: LoadAllSkills and a table on the terminal
CmdList ==
  /\ Between
  /\ run' = [IdleRun EXCEPT !.cmd = "list", !.pc = "done",
               !.outcome = IF \A id \in CmdSkills : LoadSkill(store, id).err
                           THEN "noSkills" ELSE "listed"]
  /\ log' = <<>>
  /\ snap' = [fs |-> fs, kv |-> kv, project |-> project, store |-> store]
  /\ ncmds' = ncmds + 1
  /\ UNCHANGED <<fs, kv, store, project, env, clean, avars, wvars, vvars>>

\* StateManager.SetPreferredTarget: the project state with the target stored
SetPreferredTarget(proj, target) ==
  [exists |-> TRUE, preferredTarget |-> target, skills |-> GetProjectSkills(proj)]

\* a variant that stores whatever it is given
runSetTargetUnchecked(proj, target) ==
  [err |-> FALSE, project |-> SetPreferredTarget(proj, NormalizeTarget(target))]

\* runSetTarget: the normalised target is validated, then stored
runSetTarget(proj, target) ==
  LET store1(normalizedTarget) ==
        IF normalizedTarget \notin {"cursor", "claude_code", "open_code", ""}
        THEN [err |-> TRUE, project |-> proj]
        ELSE [err |-> FALSE, project |-> SetPreferredTarget(proj, normalizedTarget)]
  IN  store1(NormalizeTarget(target))

\* set-target with one argument: full names, a short form, the empty string
\* and a name that is no target of its own
SetTargets == {"cursor", "claude", "open_code", "", "all"}
CmdSetTarget(target) ==
  /\ Between
  /\ \E r \in {runSetTarget(project, target)} :
       /\ project' = r.project
       /\ run' = [IdleRun EXCEPT !.cmd = "set-target", !.pc = "done",
                    !.target = target,
                    !.outcome = IF r.err THEN "invalidTarget" ELSE "set"]
  /\ log' = <<>>
  /\ snap' = [fs |-> fs, kv |-> kv, project |-> project, store |-> store]
  /\ ncmds' = ncmds + 1
  /\ UNCHANGED <<fs, kv, store, env, clean, avars, wvars, vvars>>

\* the skills and projects feedback is tried on
FeedbackVersions ==
  { Version100,
    <<"1", ".", "0", ".", "9">>,
    <<"1", ".", "0">>,
    <<"1", ".", "0", ".", "0", ".", "1">>,
    <<"1", ".", "0", ".", "x">>,
    <<"v1", ".", "0", ".", "2", "-beta">> }
FeedbackStoreEntries ==
  { NoSkill,
    [yaml |-> TRUE, exists |-> TRUE, version |-> Version100,
     compatibility |-> [cursor |-> TRUE, claudeCode |-> FALSE], prompt |-> NoFile] }
  \cup { [yaml |-> TRUE, exists |-> e, version |-> v,
          compatibility |-> [cursor |-> TRUE, claudeCode |-> FALSE],
          prompt |-> FileOf(Hello)] :
           e \in BOOLEAN, v \in FeedbackVersions }
FeedbackProjects ==
  { [exists |-> FALSE, preferredTarget |-> "", skills |-> {}],
    [exists |-> TRUE, preferredTarget |-> "cursor", skills |-> {}],
    [exists |-> TRUE, preferredTarget |-> "cursor",
     skills |-> {[skillID |-> "a", variables |-> {<<"LANGUAGE", <<"en">>>>}]}] }

InitFeedback ==
  /\ \E f \in {NoFile, FileOf(BlockA),
                FileOf(createMarkerBlock("a", <<"Hello", " ", "en">>)),
                FileOf(createMarkerBlock("a", Hello))} :
       fs = [p \in Paths |-> IF p = filePath THEN f ELSE NoFile]
  /\ kv = [a \in KvAdapters |-> [id \in CmdSkills |-> NoFile]]
  /\ store \in [CmdSkills -> FeedbackStoreEntries]
  /\ project \in FeedbackProjects
  /\ env = [a \in KvAdapters |-> TRUE]
  /\ run = IdleRun
  /\ log = <<>>
  /\ snap = <<>>
  /\ clean = {}
  /\ ncmds = 0
  /\ last = NoCall
  /\ prev = NoCall
  /\ nops = 0
  /\ live = <<>>
  /\ WriteIdle
  /\ ValidIdle

NextFeedback ==
  \/ \E skillID \in CmdSkills : FeedbackStart(skillID)
  \/ FeedbackConfirm
  \/ CmdList
  \/ \E target \in SetTargets : CmdSetTarget(target)
  \/ CmdApply
  \/ ExternalEdit
  \/ \E skillID \in CmdSkills, forceRemove \in BOOLEAN, removeTarget \in RemoveTargets :
       RemoveStart(skillID, forceRemove, removeTarget)
  \/ RemoveCheck
  \/ RemoveConfirm
  \/ RemoveCleanup

SpecFeedback == InitFeedback /\ [][NextFeedback]_vars

NextCmd ==
  \/ CmdApply
  \/ ExternalEdit
  \/ \E skillID \in CmdSkills, forceRemove \in BOOLEAN, removeTarget \in RemoveTargets :
       RemoveStart(skillID, forceRemove, removeTarget)
  \/ RemoveCheck
  \/ RemoveConfirm
  \/ RemoveCleanup

SpecCmd == InitCmd /\ [][NextCmd]_vars

\* ------------------------------------------------------------------ properties

RECURSIVE Count(_, _)
Count(seq, e) ==
  IF seq = <<>> THEN 0
  ELSE (IF Head(seq) = e THEN 1 ELSE 0) + Count(Tail(seq), e)

RECURSIVE Without(_, _)
Without(seq, e) ==
  IF seq = <<>> THEN <<>>
  ELSE (IF Head(seq) = e THEN <<>> ELSE <<Head(seq)>>) \o Without(Tail(seq), e)

Rendered(call) == TrimSpace(renderTemplate(call.content, call.variables).text)
Applied(call) == call.op = "Apply" /\ ~call.err

\* C1: round trip. After a successful Apply(id, template, variables),
\* Extract(id) succeeds and returns the trimmed rendering of the template.
C1_RoundTrip ==
  Applied(last) =>
    Extract(fs, last.id) = [err |-> FALSE, text |-> Rendered(last)]

\* C2: no duplication. After two successful Apply calls in a row for the same
\* id, List holds the id exactly once and Extract returns the trimmed
\* rendering of the second call.
C2_NoDuplication ==
  (Applied(prev) /\ Applied(last) /\ prev.id = last.id) =>
    /\ Count(List(fs), <<last.id>>) = 1
    /\ Extract(fs, last.id) = [err |-> FALSE, text |-> Rendered(last)]

\* C9: Remove(id) leaves the other blocks alone. List after the call is List
\* before it with id deleted, and Extract(j) is the same for every other id j.
C9_RemoveKeepsOthers ==
  [][(last'.op = "Remove" /\ nops' = nops + 1) =>
       /\ List(fs') = Without(List(fs), <<last'.id>>)
       /\ \A j \in SkillIds \ {last'.id} : Extract(fs', j) = Extract(fs, j)]_vars

\* C10: after Remove(id) on an existing file, the target is either deleted
\* (never left empty or blank) or it exists and holds no well-formed block
\* for id.
C10_RemoveDeletesBlock ==
  [][(last'.op = "Remove" /\ nops' = nops + 1 /\ fs[filePath].exists) =>
       \/ ~fs'[filePath].exists
       \/ /\ TrimSpace(fs'[filePath].data) # <<>>
          /\ Extract(fs', last'.id).err
          /\ Count(List(fs'), <<last'.id>>) = 0]_vars

\* C3: atomic write. From the call of writeFile on an existing target on,
\* whatever step, error or interruption comes next, the target exists and
\* holds its complete previous content or the complete content of a write.
C3_AtomicWrite ==
  (orig.exists /\ \E w \in Writers : wpc[w] # "idle") =>
    /\ fs[filePath].exists
    /\ fs[filePath].data \in {orig.data} \cup {wnew[w] : w \in {v \in Writers : wpc[v] # "idle"}}

\* no action is left open in the template
Balanced(content) == \A i \in 1..Len(content) : content[i] # "{{"

\* C28: template rendering. For every template with balanced delimiters and
\* every binding, rendering succeeds, a reference to a bound variable is
\* replaced by its value and a reference to a variable without a binding by
\* the empty string; rendering fails only on a template that is malformed.
C28_TemplateRendering ==
  last.op = "Apply" =>
    /\ Balanced(last.content) =>
          renderTemplate(last.content, last.variables)
            = [err |-> FALSE,
               text |-> SubstituteOrEmpty(last.content, last.variables)]
    /\ renderTemplate(last.content, last.variables).err => ~Balanced(last.content)

\* C30: sequence invariant. Starting from a missing target, after any
\* sequence of Apply and Remove calls the file exists exactly when some id
\* was applied and not removed since, and List returns exactly those ids,
\* each once, in the order in which each was last added to a file that did
\* not hold it.
C30_SequenceInvariant ==
  /\ fs[filePath].exists <=> live # <<>>
  /\ List(fs) = [i \in 1..Len(live) |-> <<live[i]>>]

C30_Witness ==
  /\ live = <<"b", "a">>
  /\ nops = 4
  /\ last.op = "Apply" /\ last.id = "a" /\ ~last.err
  /\ prev.op = "Remove" /\ prev.id = "a" /\ ~prev.err
  /\ List(fs) = << <<"b">>, <<"a">> >>
Other(w) == CHOOSE v \in Writers : v # w
Alone(w) == wpc[Other(w)] = "idle"
Finished(w) == wpc[w] \in {"done", "failed"}

\* the positions of writeFile, in the order of its statements
StepOrder ==
  { <<"idle", "stat">>, <<"stat", "backup">>, <<"stat", "tmp">>,
    <<"backup", "tmp">>, <<"tmp", "write">>, <<"write", "rename">>,
    <<"rename", "done">> }
Stopped == {"failed", "ioerror", "crashed"}

\* C26: write sequence. An invocation of writeFile that runs alone takes its
\* steps in the order backup rename (only when the target exists), write of
\* the temporary file, rename of the temporary file onto the target: the
\* backup step alone moves the target to .bak, the write step alone touches
\* .tmp, the last step alone gives the target its content. After a successful
\* write over an existing file the target holds the new content, .bak holds
\* the content the target had before the call and no .tmp file remains.
C26_WriteSequence ==
  /\ [][\A w \in Writers : (Alone(w) /\ wpc'[w] # wpc[w]) =>
         /\ <<wpc[w], wpc'[w]>> \in StepOrder \/ wpc'[w] \in Stopped
         /\ (wpc[w] = "stat" /\ wpc'[w] \notin Stopped) =>
               (wpc'[w] = "backup" <=> fs[filePath].exists)
         /\ fs'[backupPath] # fs[backupPath] =>
               wpc[w] = "backup" /\ fs'[backupPath] = fs[filePath]
                 /\ ~fs'[filePath].exists
         /\ (fs'[tmpPath] # fs[tmpPath] /\ fs'[tmpPath].exists) =>
               wpc[w] \in {"tmp", "write"}
         /\ (fs'[filePath] # fs[filePath] /\ fs'[filePath].exists) =>
               wpc[w] = "rename" /\ fs'[filePath] = fs[tmpPath]]_vars
  /\ [](\A w \in Writers : (Alone(w) /\ wpc[w] = "done" /\ orig.exists) =>
         /\ fs[filePath] = FileOf(wnew[w])
         /\ fs[backupPath] = orig
         /\ ~fs[tmpPath].exists)

C26_Witness ==
  /\ Alone(1)
  /\ wpc[1] = "done"
  /\ orig = FileOf(BlockA)
  /\ fs[filePath] = FileOf(wnew[1])
  /\ fs[backupPath] = orig

\* C27: concurrent writers, last rename wins. When two invocations run
\* writeFile on the same target with their steps interleaved in any order and
\* no error of the disk, after both have finished the target exists and its
\* content is exactly the content of one of the two writes.
C27_LastRenameWins ==
  (\A w \in Writers : Finished(w)) =>
    /\ fs[filePath].exists
    /\ \E w \in Writers : fs[filePath].data = wnew[w]

CallsOf(c) == {i \in 1..Len(log) : log[i].call = c}
CheckDone == Call("checkSkillModifications", "")
JustChecked == run.cmd = "remove" /\ log # <<>> /\ log[Len(log)] = CheckDone
YesAnswers == { <<"y", "\n">>, <<"Y", "\n">>, <<"yes", "\n">> }

\* C4: no false positive. When apply wrote the skill into .cursorrules and
\* the file was not edited since, the check of the remove command does not
\* report the Cursor adapter as modified.
C4_NoFalsePositive ==
  (JustChecked /\ <<"cursor", run.skillID>> \in clean) => "cursor" \notin run.modified

\* C5: every edit is flagged. When the check has run over the Cursor adapter
\* and the trimmed content of the block differs from the trimmed rendering
\* the check compares with (an emptied block included), hasModifications is
\* true.
C5_EveryEditFlagged ==
  ( /\ JustChecked
    /\ run.outcome # "checkFailed"
    /\ \E i \in 1..Len(run.adapters) : run.adapters[i] = "cursor"
    /\ ~Extract(fs, run.skillID).err
    /\ Extract(fs, run.skillID).text #
         TrimSpace(renderTemplateForRemove(GetSkillPrompt(store, run.skillID).text,
                                           run.variables)) )
  => run.hasModifications

\* C6 as stated: safety gate. In a remove run without --force, every call of
\* Remove on an adapter comes after the modification check has completed in
\* that run, with or without a binding of the skill in the project.
C6_SafetyGate ==
  (run.cmd = "remove" /\ ~run.force) =>
    \A i \in CallsOf("Remove") : \E j \in 1..(i - 1) : log[j] = CheckDone

\* C6 amended: in a remove run without --force for a skill that has a binding
\* in the project when the run begins, every call of Remove on an adapter
\* comes after the modification check has completed in that run.
C6_SafetyGateForBoundSkill ==
  ( /\ run.cmd = "remove"
    /\ ~run.force
    /\ ProjectHasSkill(snap.project, run.skillID) )
  => \A i \in CallsOf("Remove") : \E j \in 1..(i - 1) : log[j] = CheckDone

C6_Witness ==
  /\ run.cmd = "remove"
  /\ ~run.force
  /\ ProjectHasSkill(snap.project, run.skillID)
  /\ run.outcome = "removed"
  /\ \E i \in CallsOf("Remove") : log[i].adapter = "cursor"
  /\ ~Extract(snap.fs, run.skillID).err
  /\ fs # snap.fs

\* C7: cancelled is terminal and changes nothing. When the check reported a
\* modification and the operator answered something other than y or yes
\* (in any letter case), the run has ended, Remove was called on no adapter,
\* every target is as it was when the run began and the project still holds
\* the binding of the skill.
C7_CancelledChangesNothing ==
  ( /\ run.cmd = "remove"
    /\ run.hasModifications
    /\ CallsOf("confirmRemoval") # {}
    /\ run.answer \notin YesAnswers )
  => /\ run.pc = "done"
     /\ CallsOf("Remove") = {}
     /\ fs = snap.fs
     /\ kv = snap.kv
     /\ project = snap.project
     /\ ProjectHasSkill(project, run.skillID)

C7_Witness ==
  /\ run.cmd = "remove"
  /\ run.hasModifications
  /\ run.answer = <<"n", "\n">>
  /\ run.outcome = "cancelled"
  /\ fs[filePath].exists
  /\ ~Extract(fs, run.skillID).err

\* C8: forced removal skips the check. A remove run with --force never calls
\* GetSkillPrompt, Extract or Sum256, never runs checkSkillModifications,
\* never asks for confirmation, is never at the check or at the question, and
\* once its arguments are accepted it is at the cleanup or past it.
C8_ForceSkipsCheck ==
  (run.cmd = "remove" /\ run.force) =>
    /\ \A i \in 1..Len(log) : log[i].call = "Remove"
    /\ run.pc \in {"cleanup", "done"}
    /\ run.pc = "done" =>
         run.outcome \in {"noTarget", "loadFailed", "invalidTarget", "removed"}
    /\ ~run.hasModifications /\ run.answer = <<>>

C8_Witness ==
  /\ run.cmd = "remove"
  /\ run.force
  /\ run.skillEnabled
  /\ run.outcome = "removed"
  /\ CallsOf("Remove") # {}
  /\ snap.fs[filePath].exists
  /\ ~Extract(snap.fs, run.skillID).err
  /\ Extract(snap.fs, run.skillID).text #
       TrimSpace(renderTemplateForRemove(GetSkillPrompt(store, run.skillID).text,
                                         run.variables))
  /\ fs # snap.fs

\* ---- the marker block protocol, read off the text

OpenLine(t) == BeginLit \o <<t>> \o CloseLit \o NL
CloseLine(t) == NL \o EndLit \o <<t>> \o CloseLit

\* the text that follows position p up to the next closing delimiter start,
\* 0 if there is none or an opening delimiter comes first
ContentEnd(s, p) ==
  LET j == Index(s, NL \o EndLit, p + Len(OpenLine("a")))
  IN  IF j = 0 \/ Index(s, BeginLit, p + 1) \in 1..j THEN 0 ELSE j

\* a well-formed block for t starts at p: its opening line, content without
\* delimiters, and the closing delimiter with the same id
WellFormedAt(s, p, t) ==
  /\ HasAt(s, OpenLine(t), p)
  /\ ContentEnd(s, p) # 0
  /\ HasAt(s, CloseLine(t), ContentEnd(s, p))

\* a candidate region with opening id t and another closing id starts at p
MismatchedAt(s, p, t) ==
  /\ HasAt(s, OpenLine(t), p)
  /\ ContentEnd(s, p) # 0
  /\ \E u \in Word \ {t} : HasAt(s, CloseLine(u), ContentEnd(s, p))

RegionAt(s, p) == SubSeq(s, p, ContentEnd(s, p) + Len(CloseLine("a")) - 1)
ContentAt(s, p) == SubSeq(s, p + Len(OpenLine("a")), ContentEnd(s, p) - 1)

RECURSIVE WellFormedFrom(_, _)
WellFormedFrom(s, p) ==
  IF p > Len(s) THEN <<>>
  ELSE (IF \E t \in Word : WellFormedAt(s, p, t)
        THEN <<[id |-> s[p + Len(BeginLit)], at |-> p]>> ELSE <<>>)
       \o WellFormedFrom(s, p + 1)

\* the well-formed blocks of a file in document order
WellFormedBlocks(f) ==
  IF f[filePath].exists THEN WellFormedFrom(f[filePath].data, 1) ELSE <<>>

WellFormedIds(f) == [i \in 1..Len(WellFormedBlocks(f)) |-> <<WellFormedBlocks(f)[i].id>>]

DataOf(f) == IF f[filePath].exists THEN f[filePath].data ELSE <<>>

ApplyStep == last'.op = "Apply" /\ ~last'.err /\ nops' = nops + 1
RemoveStep == last'.op = "Remove" /\ nops' = nops + 1
NewBlock == createMarkerBlock(last'.id, renderTemplate(last'.content, last'.variables).text)
Appended(old, block) ==
  IF TrimSpace(old) = <<>> THEN block ELSE TrimSpace(old) \o NL \o NL \o block

\* C11: replace versus append. A successful Apply(id) replaces in place
\* exactly when Extract(id) would succeed before the call, and then List is
\* the same before and after; in every other case the file afterwards is the
\* prior content with the new block appended after it.
C11_ReplaceOrAppend ==
  [][ApplyStep =>
       IF ~Extract(fs, last'.id).err
       THEN List(fs') = List(fs)
       ELSE fs'[filePath].data = Appended(DataOf(fs), NewBlock)]_vars

\* C12: literal text is untouched by a replace. Applying again what the last
\* successful Apply applied, with the same id, leaves the target file
\* identical to the one before.
C12_ReapplyIsIdentity ==
  [][(ApplyStep /\ Applied(last) /\ last' = last) =>
       fs'[filePath] = fs[filePath]]_vars

\* C13: List is complete and ordered. For every file, List() is the ids of
\* the well-formed blocks of the file in document order, also when a
\* malformed candidate stands before a well-formed block.
C13_ListComplete == List(fs) = WellFormedIds(fs)

\* C14: List never returns an id whose delimiters disagree. Every id List
\* returns stands in an opening delimiter line of the file and in a closing
\* delimiter after it.
C14_ListedIdsAgree ==
  \A id \in {List(fs)[i] : i \in 1..Len(List(fs))} :
    \E p \in {Index(DataOf(fs), BeginLit \o id \o CloseLit \o NL, 1)} :
      /\ p # 0
      /\ \E q \in p..Len(DataOf(fs)) :
           /\ HasAt(DataOf(fs), BeginLit \o id \o CloseLit \o NL, q)
           /\ Index(DataOf(fs), NL \o EndLit \o id \o CloseLit,
                    q + Len(BeginLit \o id \o CloseLit \o NL)) # 0

C14_Witness ==
  /\ nops > 0
  /\ Len(List(fs)) >= 1
  /\ \E p \in 1..Len(DataOf(fs)), t \in Word : MismatchedAt(DataOf(fs), p, t)

\* C15: a mismatched block is invisible. A candidate region whose opening id
\* differs from its closing id is never altered or deleted: it is in the
\* file, unaltered, after every Apply and Remove, whatever id they are called
\* with.
C15_MismatchedUntouched ==
  [][(ApplyStep \/ RemoveStep) =>
       \A p \in 1..Len(DataOf(fs)), t \in Word :
         MismatchedAt(DataOf(fs), p, t) =>
           Index(DataOf(fs'), RegionAt(DataOf(fs), p), 1) # 0]_vars

\* C16: Extract(id) returns an error exactly when the target file is missing
\* or holds no well-formed block for id, and the trimmed content of the
\* first well-formed block for id otherwise.
C16_ExtractFindsWellFormed ==
  \A t \in SkillIds :
    LET B == WellFormedBlocks(fs)
        I == {i \in 1..Len(B) : B[i].id = t}
    IN  Extract(fs, t) =
          IF I = {} THEN [err |-> TRUE, text |-> <<>>]
          ELSE [err |-> FALSE,
                text |-> TrimSpace(ContentAt(DataOf(fs), B[MinOf(I)].at))]

\* C17: append format. When a successful Apply adds a block for an id whose
\* opening line is followed by no closing delimiter of that id, the file
\* afterwards is the trimmed prior content, one blank line, and the block;
\* with the prior file missing, empty or blank it is the block alone.
C17_AppendFormat ==
  [][(ApplyStep
      /\ \A p \in 1..Len(DataOf(fs)) :
            HasAt(DataOf(fs), OpenLine(last'.id), p) =>
              Index(DataOf(fs), CloseLine(last'.id), p + Len(OpenLine(last'.id))) = 0)
     => /\ fs'[filePath].exists
        /\ fs'[filePath].data = Appended(DataOf(fs), NewBlock)]_vars

C17_Witness ==
  /\ nops = 1
  /\ Applied(last)
  /\ fs[backupPath].exists
  /\ TrimSpace(fs[backupPath].data) # <<>>
  /\ TrimSpace(fs[backupPath].data) # fs[backupPath].data
  /\ WellFormedIds(fs) = <<<<"a">>, <<last.id>>>>
  /\ last.id = "b"
  /\ Index(fs[backupPath].data, OpenLine("b"), 1) = 0

\* ---- the loops over the adapters

Called(c, adapter) == \E i \in 1..Len(log) : log[i] = Call(c, adapter)
CalledAfter(c, first, second) ==
  \E i, j \in 1..Len(log) :
    i < j /\ log[i] = Call(c, first) /\ log[j] = Call(c, second)

\* the adapters a target names
TargetAdapters(t) ==
  IF t = "all" THEN {"cursor", "claude_code", "open_code"}
  ELSE {t} \cap {"cursor", "claude_code", "open_code"}

\* the compatibility flag of a skill for an adapter, if it has one
Declares(skill, adapter) ==
  \/ adapter = "cursor" /\ skill.compatibility.cursor
  \/ adapter = "claude_code" /\ skill.compatibility.claudeCode

C19_FailureIndependence ==
  /\ (run.cmd = "remove" /\ Called("checkSkillModifications", "")
       /\ run.outcome # "checkFailed") =>
        \A adapter \in TargetAdapters(run.target) :
          Supports(env, adapter) => Called("Extract", adapter)
  /\ (run.cmd = "remove" /\ run.outcome = "removed") =>
        \A adapter \in TargetAdapters(run.target) :
          (Declares(store[run.skillID], adapter) /\ Supports(env, adapter))
            => Called("Remove", adapter)
  /\ (run.cmd = "apply" /\ run.outcome = "applied" /\ ~run.dryRun) =>
        \A adapter \in TargetAdapters(NormalizeTarget(run.target)) \ {"open_code"} :
          (\E b \in GetProjectSkills(snap.project) :
             /\ store[b.skillID].exists
             /\ store[b.skillID].prompt.exists
             /\ Declares(store[b.skillID], adapter))
            => Called("Apply", adapter)

\* an Extract, a Remove or an Apply on the Cursor adapter returned an error
\* and the next adapter was processed all the same
C19_Witness ==
  \/ /\ run.cmd = "remove"
     /\ Extract(snap.fs, run.skillID).err
     /\ CalledAfter("Extract", "cursor", "claude_code")
     /\ run.hasModifications
  \/ /\ run.cmd = "remove"
     /\ run.outcome = "removed"
     /\ CalledAfter("Remove", "cursor", "claude_code")
     /\ run.removed = {"claude_code"}
  \/ /\ run.cmd = "apply"
     /\ ~run.dryRun
     /\ CalledAfter("Apply", "cursor", "claude_code")
     /\ <<"cursor", "a">> \notin clean
     /\ <<"claude_code", "a">> \in clean
     /\ fs = snap.fs

\* C20: unsupported adapters are skipped. In every run of apply, of remove
\* and of the check, no Apply, Extract or Remove is called on an adapter
\* whose Supports() is false.
C20_UnsupportedSkipped ==
  \A i \in 1..Len(log) :
    log[i].call \in {"Apply", "Extract", "Remove"} => Supports(env, log[i].adapter)

C29_DryRunChangesNothing ==
  (run.cmd = "apply" /\ run.dryRun) =>
    /\ CallsOf("Apply") = {}
    /\ fs = snap.fs
    /\ kv = snap.kv
    /\ project = snap.project
    /\ store = snap.store

\* a dry run that had a skill to apply to the Cursor adapter
C29_Witness ==
  /\ run.cmd = "apply"
  /\ run.dryRun
  /\ run.outcome = "applied"
  /\ run.target \in {"all", "cursor"}
  /\ \E b \in GetProjectSkills(project) :
       /\ store[b.skillID].exists
       /\ store[b.skillID].compatibility.cursor
       /\ store[b.skillID].prompt = FileOf(Hello)
  /\ fs = snap.fs
  /\ ~fs[filePath].exists

\* ---- properties of the feedback command

\* the step in which the operator gives consent to a feedback
AcceptStep ==
  /\ run.cmd = "feedback"
  /\ run.pc = "confirmFeedback"
  /\ run'.pc = "done"
  /\ TrimSpace(run'.answer) \in { <<"y">>, <<"Y">> }

\* major.minor.patch with a patch that is a number
IsNumber(tok) == \E n \in IntRange : ToString(n) = tok
ThreePart(v) ==
  /\ Len(v) = 5
  /\ v[2] = "." /\ v[4] = "."
  /\ v[1] # "." /\ v[3] # "."
  /\ IsNumber(v[5])
NextPatch(v) ==
  <<v[1], ".", v[3], ".", ToString((CHOOSE n \in IntRange : ToString(n) = v[5]) + 1)>>
Dots(v) == Cardinality({i \in 1..Len(v) : v[i] = "."})

\* C21: accepted feedback. When a modification was detected and the
\* operator accepts, the prompt of the skill becomes the content extracted
\* from the target file and a version major.minor.patch becomes
\* major.minor.(patch+1), major and minor as they were.
C21_AcceptedFeedback ==
  [][AcceptStep =>
       /\ store'[run.skillID].prompt = FileOf(Extract(fs, run.skillID).text)
       /\ ThreePart(store[run.skillID].version) =>
             store'[run.skillID].version = NextPatch(store[run.skillID].version)]_vars

\* C22: version no-op. When the version does not split into exactly three
\* parts at its dots, an accepted feedback leaves the version as it was and
\* still writes the prompt.
C22_VersionNoOp ==
  [][(AcceptStep /\ Dots(store[run.skillID].version) # 2) =>
       /\ store'[run.skillID].version = store[run.skillID].version
       /\ store'[run.skillID].prompt = FileOf(Extract(fs, run.skillID).text)]_vars

C22_Witness ==
  /\ run.cmd = "feedback"
  /\ run.outcome = "accepted"
  /\ store[run.skillID].version = <<"1", ".", "0">>
  /\ store[run.skillID].prompt = FileOf(run.fileContent)
  /\ store[run.skillID].prompt # snap.store[run.skillID].prompt

\* the ways a feedback run ends without consent
FeedbackStopped ==
  {"notEnabled", "notFound", "extractFailed", "promptFailed", "renderFailed",
   "unmodified", "declined"}

\* C23: feedback overwrites only after detection and confirmation. A step
\* of a feedback run changes the skill store only when the skill is enabled
\* in the project, its block was extracted, the trimmed content differs from
\* the trimmed rendering of the prompt and the operator answered y or Y;
\* after a run that ended in any other way the store is as it was.
C23_OverwriteOnlyAfterConfirm ==
  /\ [][(run'.cmd = "feedback" /\ store' # store) =>
         /\ ProjectHasSkill(project, run.skillID)
         /\ ~Extract(fs, run.skillID).err
         /\ TrimSpace(Extract(fs, run.skillID).text)
              # TrimSpace(cliRenderTemplate(store[run.skillID].prompt.data,
                                            SkillVarsOf(project, run.skillID)).text)
         /\ TrimSpace(run'.answer) \in { <<"y">>, <<"Y">> }]_vars
  /\ []((run.cmd = "feedback" /\ run.outcome \in FeedbackStopped)
          => store = snap.store)

\* a modification was shown and the operator typed yes, which is not y
C23_Witness ==
  /\ run.cmd = "feedback"
  /\ run.outcome = "declined"
  /\ run.answer = <<"yes", "\n">>
  /\ run.fileContent # <<>>
  /\ store = snap.store

\* C24: the canonical skill is immutable except through feedback. No step of
\* an apply, remove, set-target or list run, and no manual edit of a target
\* file, changes the prompt or the version of a skill.
C24_ImmutableExceptFeedback ==
  [][run'.cmd # "feedback" => store' = store]_vars

\* three runs, the last a removal that cleaned the target, the store intact
C24_Witness ==
  /\ ncmds = 3
  /\ run.cmd = "remove"
  /\ run.outcome = "removed"
  /\ run.removed # {}
  /\ fs # snap.fs
  /\ store = snap.store

\* ---- reading and removing, with and without a target file

\* the ids that occur in delimiter lines of the files tried: a, b and x
IdsInFiles == SkillIds \cup {"x"}
Listed(f, id) == LET ids == List(f) IN \E i \in 1..Len(ids) : ids[i] = <<id>>

\* C31: Extract and List agree. For every file text and every id,
\* Extract(id) succeeds if and only if id is an element of List().
C31_ExtractListAgree ==
  \A id \in IdsInFiles : ~Extract(fs, id).err <=> Listed(fs, id)

\* after an Apply of b the file holds a candidate that opens with a and
\* closes with b, and a block of b
C31_Witness ==
  /\ last.op = "Apply" /\ last.id = "b" /\ ~last.err
  /\ LET matches == FindAllStringSubmatch(fs[filePath].data, 1)
     IN  \E i \in 1..Len(matches) : matches[i].id = <<"a">> /\ matches[i].id2 = <<"b">>
  /\ Extract(fs, "a").err
  /\ ~Extract(fs, "b").err
  /\ List(fs) = << <<"b">> >>

\* C32: Remove of an absent id is a no-op on content. When the target file
\* exists and holds no well-formed block for id, Remove(id) returns success
\* and the file still exists with exactly the text it had.
C32_RemoveAbsentIsNoOp ==
  [][(RemoveStep /\ fs[filePath].exists
        /\ \A i \in 1..Len(WellFormedIds(fs)) : WellFormedIds(fs)[i] # <<last'.id>>)
       => (~last'.err /\ fs'[filePath] = fs[filePath])]_vars

\* C33: missing-file semantics. When the target file does not exist, Extract
\* returns an error, List returns the empty list, Remove returns success and
\* leaves every file as it is; a step that creates the target file is an
\* Apply.
C33_MissingFile ==
  /\ [](~fs[filePath].exists =>
          \A id \in SkillIds :
            /\ Extract(fs, id).err
            /\ List(fs) = <<>>
            /\ Remove(fs, id) = [fs |-> fs, err |-> FALSE])
  /\ [][(~fs[filePath].exists /\ RemoveStep) => (fs' = fs /\ ~last'.err)]_vars
  /\ [][(~fs[filePath].exists /\ fs'[filePath].exists) => ApplyStep]_vars

\* two removals of a in a row, the second of them with no file of any
\* name around
C33_Witness ==
  /\ nops = 2
  /\ prev.op = "Remove" /\ prev.id = "a"
  /\ last.op = "Remove" /\ last.id = "a" /\ ~last.err
  /\ \A p \in Paths : ~fs[p].exists

\* ---- failures and repetition

\* C34: feedback is all-or-nothing on error. When an accepted feedback run
\* returns an error, the prompt and the version of the skill are both as
\* they were; the store never holds the new prompt with the old version.
C34_FeedbackAllOrNothing ==
  [][(AcceptStep /\ run'.outcome # "accepted") => store' = store]_vars

\* C35: a failed safety check blocks removal. In a remove run without
\* --force for an enabled skill whose prompt cannot be read, the check
\* ends the run: Remove is called on no adapter, every target is as it was
\* and the binding is still there.
C35_FailedCheckBlocks ==
  ( /\ run.cmd = "remove"
    /\ ~run.force
    /\ run.skillEnabled
    /\ CallsOf("checkSkillModifications") # {}
    /\ GetSkillPrompt(store, run.skillID).err )
  => /\ run.pc = "done"
     /\ CallsOf("Remove") = {}
     /\ fs = snap.fs
     /\ kv = snap.kv
     /\ ProjectHasSkill(project, run.skillID)

\* the check failed although .cursorrules holds a block of the skill
C35_Witness ==
  /\ run.cmd = "remove"
  /\ run.outcome = "checkFailed"
  /\ run.skillEnabled
  /\ ~store[run.skillID].prompt.exists
  /\ ~Extract(fs, run.skillID).err

\* C36: feedback converges. A feedback run that follows an accepted feedback
\* run for the same skill, with no edit of the target file in between,
\* finds the content unmodified, writes nothing and leaves the version as
\* it is.
C36_FeedbackConverges ==
  [][( /\ run.cmd = "feedback" /\ run.outcome = "accepted"
       /\ run'.cmd = "feedback" /\ ncmds' = ncmds + 1
       /\ run'.skillID = run.skillID )
     => (run'.pc = "done" /\ run'.outcome = "unmodified" /\ store' = store)]_vars

\* ---- the preferred target

SupportedTargets == {"cursor", "claude_code", "open_code", ""}

\* C37: the preferred target stays within the supported set. After any
\* sequence of set-target runs the stored preferred target is cursor,
\* claude_code, open_code or empty; a run whose normalised argument is
\* anything else returns an error and leaves the project state as it is.
C37_PreferredTargetSupported ==
  /\ [](project.preferredTarget \in SupportedTargets)
  /\ [][(run'.cmd = "set-target" /\ ncmds' = ncmds + 1
          /\ NormalizeTarget(run'.target) \notin SupportedTargets)
         => (run'.outcome = "invalidTarget" /\ project' = project)]_vars

\* the short form claude was stored as claude_code over cursor, and the
\* run before it was a set-target too
C37_Witness ==
  /\ ncmds >= 2
  /\ run.cmd = "set-target"
  /\ run.target = "claude"
  /\ run.outcome = "set"
  /\ snap.project.preferredTarget = "cursor"
  /\ project.preferredTarget = "claude_code"
  /\ project.skills = snap.project.skills

\* ------------------------------------------------------------------ pkg/validator

\* the number of errors and of warnings one result is given
MaxIssues == 2

ResultNames == {1, 2}
ErrorCodes == {"E1", "E2"}
WarningCodes == {"W1"}

\* NewValidationResult: no errors, no warnings, valid
NewValidationResult == [IsValid |-> TRUE, Errors |-> <<>>, Warnings |-> <<>>]

AddError(r, err) == [r EXCEPT !.Errors = Append(@, err), !.IsValid = FALSE]

AddWarning(r, warn) == [r EXCEPT !.Warnings = Append(@, warn)]

\* a variant that takes the errors and leaves IsValid alone
MergeKeepsIsValid(r, other) ==
  [r EXCEPT !.Errors = @ \o other.Errors, !.Warnings = @ \o other.Warnings]

Merge(r, other) ==
  [IsValid  |-> IF ~other.IsValid THEN FALSE ELSE r.IsValid,
   Errors   |-> r.Errors \o other.Errors,
   Warnings |-> r.Warnings \o other.Warnings]

InitValid ==
  /\ results = [n \in ResultNames |-> NewValidationResult]
  /\ vlast = [op |-> "NewValidationResult", r |-> 0, other |-> 0]
  /\ fs = [p \in Paths |-> NoFile]
  /\ last = NoCall /\ prev = NoCall /\ nops = 0 /\ live = <<>>
  /\ WriteIdle
  /\ CmdIdle

DoAddError(n) ==
  /\ Len(results[n].Errors) < MaxIssues
  /\ \E err \in ErrorCodes :
       results' = [results EXCEPT ![n] = AddError(@, err)]
  /\ vlast' = [op |-> "AddError", r |-> n, other |-> 0]
  /\ UNCHANGED <<fs, avars, wvars, cvars>>

DoAddWarning(n) ==
  /\ Len(results[n].Warnings) < MaxIssues
  /\ \E warn \in WarningCodes :
       results' = [results EXCEPT ![n] = AddWarning(@, warn)]
  /\ vlast' = [op |-> "AddWarning", r |-> n, other |-> 0]
  /\ UNCHANGED <<fs, avars, wvars, cvars>>

\* r.Merge(other); other may be r itself
DoMerge(n, m) ==
  /\ Len(results[n].Errors) + Len(results[m].Errors) <= 2 * MaxIssues
  /\ Len(results[n].Warnings) + Len(results[m].Warnings) <= 2 * MaxIssues
  /\ results' = [results EXCEPT ![n] = Merge(@, results[m])]
  /\ vlast' = [op |-> "Merge", r |-> n, other |-> m]
  /\ UNCHANGED <<fs, avars, wvars, cvars>>

NextValid ==
  \/ \E n \in ResultNames : DoAddError(n)
  \/ \E n \in ResultNames : DoAddWarning(n)
  \/ \E n, m \in ResultNames : DoMerge(n, m)

SpecValid == InitValid /\ [][NextValid]_vars

\* C38: the ValidationResult invariant. From NewValidationResult, after any
\* sequence of AddError, AddWarning and Merge calls, IsValid is true if and
\* only if Errors is empty; a step that adds a warning, or merges a result
\* without errors, leaves IsValid as it is.
C38_ValidIffNoErrors ==
  /\ [](\A n \in ResultNames : results[n].IsValid <=> results[n].Errors = <<>>)
  /\ [][\A n \in ResultNames :
          (vlast'.r = n /\ ( \/ vlast'.op = "AddWarning"
                             \/ vlast'.op = "Merge"
                                /\ results[vlast'.other].Errors = <<>> ))
          => results'[n].IsValid = results[n].IsValid]_vars

\* a result that had warnings only took the errors of another in a Merge
C38_Witness ==
  /\ vlast = [op |-> "Merge", r |-> 1, other |-> 2]
  /\ ~results[1].IsValid
  /\ results[1].Errors = results[2].Errors
  /\ results[1].Errors # <<>>
  /\ Len(results[1].Warnings) > Len(results[2].Warnings)

====
